---- MODULE Spec2Model ----
(***************************************************************************)
(* Model of the Elasticsearch dagger module (main.py): one Elasticsearch   *)
(* client object whose functions issue curl requests, one after the other, *)
(* against the bound Elasticsearch service.                                *)
(*                                                                         *)
(* Text is a sequence of tokens: punctuation and names are tokens, NL is   *)
(* the newline character.  A response body is a one-token text that names  *)
(* the request it answers and the HTTP status the server gave.             *)
(***************************************************************************)
EXTENDS Integers, Sequences, FiniteSets, TLC

\* ------------------------------------------------------------ bounds ----
MaxDocs == 2

\* ------------------------------------------------------------- text -----
NL == "\n"
BSL == "\\"

\* A JSON document is a flat object with one string member "a", or the
\* empty object.  A string value is a sequence of characters and may hold
\* a newline.
DocEmpty == [kind |-> "empty", val |-> <<>>]
DocMultiline == [kind |-> "obj", val |-> <<"x", NL, "y">>]
Documents == {DocEmpty, DocMultiline}

IndexNames == {"movies", "my-index"}
Paths == {"", "_cat/indices?v"}
Modes == {"dev", "other"}

RECURSIVE SeqsUpTo(_, _)
SeqsUpTo(S, n) ==
    IF n = 0 THEN {<<>>}
    ELSE LET shorter == SeqsUpTo(S, n - 1)
         IN  shorter \cup {Append(s, x) : s \in {t \in shorter : Len(t) = n - 1}, x \in S}

\* The content of the data file: JSON text of a list of documents (json is
\* TRUE and docs is what json.loads gives), or text that is not JSON.
JsonFile(docs) == [json |-> TRUE, docs |-> docs]
Malformed == [json |-> FALSE, docs |-> <<>>]
DataFiles == {JsonFile(d) : d \in SeqsUpTo(Documents, MaxDocs)} \cup {Malformed}

\* json.dumps of a string: quotes around the characters, a newline written
\* as the two characters backslash, n.
RECURSIVE EscapeChars(_)
EscapeChars(s) ==
    IF s = <<>> THEN <<>>
    ELSE (IF Head(s) = NL THEN <<BSL, "n">> ELSE <<Head(s)>>) \o EscapeChars(Tail(s))

\* Variant: the characters between quotes as they are, nothing escaped.
DumpsString_unescaped(s) == <<"\"">> \o s \o <<"\"">>

DumpsString(s) == <<"\"">> \o EscapeChars(s) \o <<"\"">>

\* json.dumps(document), default separators (", " and ": ").
DumpsDocument(d) ==
    IF d.kind = "empty" THEN <<"{", "}">>
    ELSE <<"{">> \o DumpsString(<<"a">>) \o <<":", " ">> \o DumpsString(d.val) \o <<"}">>

\* json.dumps({"index": {"_index": index}})
DumpsIndexAction(index) ==
    <<"{">> \o DumpsString(<<"index">>) \o <<":", " ", "{">>
            \o DumpsString(<<"_index">>) \o <<":", " ">> \o DumpsString(<<index>>)
            \o <<"}", "}">>

\* "\n".join(lines)
RECURSIVE JoinNL(_)
JoinNL(lines) ==
    IF lines = <<>> THEN <<>>
    ELSE IF Len(lines) = 1 THEN lines[1]
    ELSE lines[1] \o <<NL>> \o JoinNL(Tail(lines))

\* The for loop of format_data_for_bulk_indexing: two appends per document.
RECURSIVE BulkOperations(_, _)
BulkOperations(documents, index) ==
    IF documents = <<>> THEN <<>>
    ELSE <<DumpsIndexAction(index), DumpsDocument(Head(documents))>>
            \o BulkOperations(Tail(documents), index)

format_data_for_bulk_indexing(documents, index) ==
    JoinNL(BulkOperations(documents, index)) \o <<NL>>

\* --------------------------------------------------------- requests ----
\* One curl execution: with_exec([...]) on the curl container.  svc says
\* whether the container has the Elasticsearch service bound.
Request(method, target, endpoint, body, svc) ==
    [method |-> method, target |-> target, endpoint |-> endpoint,
     body |-> body, svc |-> svc]

no_replica_query == <<"no_replica_query">>
SettingsRequest(index) == Request("PUT", index, "_settings", no_replica_query, TRUE)
GetRequest(p) == Request("GET", p, "", <<>>, TRUE)
DeleteRequest(index) == Request("DELETE", index, "", <<>>, TRUE)
BulkRequest(operations) == Request("POST", "", "_bulk", operations, TRUE)
SearchRequest(index) == Request("POST", index, "_search", <<"match">>, TRUE)
SemanticSearchRequest(index) ==
    Request("POST", index, "_search", <<"q_text_expansion">>, TRUE)
MappingRequest(index) == Request("PUT", index, "", <<"q_vector_field">>, TRUE)
PipelineRequest ==
    Request("PUT", "_ingest/pipeline", "elser-pipeline", <<"q_ingest_pipeline">>, TRUE)
ReindexRequest(dest, source) ==
    Request("POST", "", "_reindex", <<"q_reindex_data", dest, source, "elser-pipeline">>, TRUE)
ClusterSettingsRequest ==
    Request("PUT", "_cluster", "settings", <<"model_location">>, TRUE)
CreateModelRequest ==
    Request("PUT", "_ml/trained_models", ".elser_model_2", <<"es_create_elser_model">>, TRUE)
StartDeploymentRequest ==
    Request("POST", "_ml/trained_models/.elser_model_2", "deployment/_start", <<>>, TRUE)

models_files_urls ==
    <<"elser_model_2.metadata.json", "elser_model_2.pt", "elser_model_2.vocab.json">>
FetchRequest(url) == Request("GET", url, "-O", <<>>, FALSE)

\* What the awaited stdout() of a curl execution can come to: the server
\* answered 2xx, the server answered with an error status (curl still exits
\* 0 and prints the body), or curl could not reach the server (exit code
\* not 0, stdout() raises).
Outcomes == {"2xx", "4xx", "transport_error"}

ResponseBody(req, outcome) == <<[of |-> req, status |-> outcome]>>

Slots == {"r1", "r2", "r3", "r4", "resp", "out", "model_creation_output",
          "model_deployment_output"}

ElserStates == <<"NotInstalled", "Downloading", "Installed",
                 "ConfigRepositorySet", "ModelCreated", "DeploymentStarted">>

\* ------------------------------------------------------------ state -----
VARIABLES
    mode,       \* self.mode, fixed at construction
    status,     \* "idle", "running", "returned" or "raised"
    op,         \* the function dagger called on the object
    pc,         \* the statement the coroutine is at
    caller,     \* who called index_data / install_elser: "dagger" or a function
    path,       \* get's argument
    index,      \* the index argument of the called function
    data,       \* the content of the data file
    id_index,   \* index_data's own index parameter
    operations, \* index_data's local: the bulk text
    url_i,      \* install_elser's position in models_files_urls
    r,          \* the locals that hold response bodies
    result,     \* the value returned to dagger
    inflight,   \* the curl executions awaited and not yet resolved
    log,        \* the requests issued by the running function, in order
    cluster,    \* the indices and pipelines that exist in es-data
    elser,      \* where the model installation stands
    error       \* the exception that ended the call, if one did

vars == <<mode, status, op, pc, caller, path, index, data, id_index, operations,
          url_i, r, result, inflight, log, cluster, elser, error>>

inputs == <<path, index, data>>

NoRequest == Request("", "", "", <<>>, FALSE)
NoError == [type |-> "none", cmd |-> NoRequest]
JSONDecodeError == [type |-> "JSONDecodeError", cmd |-> NoRequest]
ExecError(req) == [type |-> "ExecError", cmd |-> req]

Resources == IndexNames \cup {"index_tmp", "elser-pipeline"}

Init ==
    /\ mode \in Modes
    /\ status = "idle"
    /\ op = "none"
    /\ pc = "done"
    /\ caller = "dagger"
    /\ path = ""
    /\ index = "my-index"
    /\ data = JsonFile(<<>>)
    /\ id_index = "my-index"
    /\ operations = <<>>
    /\ url_i = 0
    /\ r = [s \in Slots |-> <<>>]
    /\ result = <<>>
    /\ inflight = {}
    /\ log = <<>>
    /\ cluster = {}
    /\ elser = "NotInstalled"
    /\ error = NoError

\* --------------------------------------------------- the curl helper ----
\* What a 2xx answer leaves behind in the cluster.
ApplyRequest(req, c) ==
    CASE req.method = "PUT" /\ req.endpoint = "" -> c \cup {req.target}
      [] req.method = "DELETE" -> c \ {req.target}
      [] req.endpoint = "_bulk" -> c \cup {id_index}
      [] req.endpoint = "elser-pipeline" -> c \cup {"elser-pipeline"}
      [] req.endpoint = "_reindex" -> c \cup {req.body[2]}
      [] OTHER -> c

\* with_exec: the request goes out.
Exec(req) ==
    /\ inflight' = inflight \cup {req}
    /\ log' = Append(log, req)

\* Variant: the failure handler deletes what the call had created.
Raise_cleanup(exc) ==
    /\ status' = "raised"
    /\ error' = exc
    /\ pc' = "done"
    /\ cluster' = cluster \ {index, "index_tmp", "elser-pipeline"}

\* An exception leaves every coroutine of the call chain: no function of
\* the module catches anything.
Raise(exc) ==
    /\ status' = "raised"
    /\ error' = exc
    /\ pc' = "done"
    /\ cluster' = cluster

\* What a statement does with the awaited text: drops it, binds a local to
\* it, adds it to a local, or returns it to dagger.
Discard == [kind |-> "discard", slot |-> ""]
Assign(slot) == [kind |-> "assign", slot |-> slot]
AddTo(slot) == [kind |-> "add", slot |-> slot]
Return == [kind |-> "return", slot |-> ""]

Store(st, body) ==
    /\ r' = CASE st.kind = "assign" -> [r EXCEPT ![st.slot] = body]
               [] st.kind = "add" -> [r EXCEPT ![st.slot] = r[st.slot] \o body]
               [] OTHER -> r
    /\ result' = IF st.kind = "return" THEN body ELSE result
    /\ status' = IF st.kind = "return" THEN "returned" ELSE status

\* Where the model installation stands once a request of deploy_elser has
\* been answered.
ElserAfter(req, st) ==
    CASE req = ClusterSettingsRequest -> "ConfigRepositorySet"
      [] req = CreateModelRequest -> "ModelCreated"
      [] req = StartDeploymentRequest -> "DeploymentStarted"
      [] OTHER -> st

\* await <container>.stdout() at statement `at`: first the request is sent,
\* then the coroutine is suspended until the execution resolves.  st says
\* what the statement does with the text, next is the statement after it.
Stdout(at, req, st, next) ==
    /\ status = "running"
    /\ pc = at
    /\ \/ /\ inflight = {}
          /\ Exec(req)
          /\ UNCHANGED <<mode, status, op, pc, caller, inputs, id_index, operations,
                         url_i, r, result, cluster, elser, error>>
       \/ /\ inflight # {}
          /\ \E q \in inflight, outcome \in Outcomes :
                /\ inflight' = inflight \ {q}
                /\ IF outcome = "transport_error"
                   THEN /\ Raise(ExecError(q))
                        /\ UNCHANGED <<r, result, elser>>
                   ELSE /\ Store(st, ResponseBody(q, outcome))
                        /\ pc' = next
                        /\ elser' = ElserAfter(q, elser)
                        /\ cluster' = IF outcome = "2xx" THEN ApplyRequest(q, cluster)
                                                       ELSE cluster
                        /\ UNCHANGED error
          /\ UNCHANGED <<mode, op, caller, inputs, id_index, operations, url_i, log>>

\* Variant: the settings PUT goes out whatever the mode.
set_replica_any_mode(at, target, next) ==
    Stdout(at, SettingsRequest(target), Discard, next)

\* await self.set_replica(index) at statement `at`.
set_replica(at, target, next) ==
    \/ /\ mode = "dev"
       /\ Stdout(at, SettingsRequest(target), Discard, next)
    \/ /\ mode # "dev"
       /\ status = "running"
       /\ pc = at
       /\ pc' = next
       /\ UNCHANGED <<mode, status, op, caller, inputs, id_index, operations, url_i,
                      r, result, inflight, log, cluster, elser, error>>

\* dagger calls a function of the object.
Call(f, first) ==
    /\ status = "idle"
    /\ status' = "running"
    /\ op' = f
    /\ pc' = first
    /\ caller' = "dagger"
    /\ UNCHANGED <<mode, operations, url_i, r, result, inflight, log, cluster, error>>

\* ---------------------------------------------------------------- get --
\* Variant: get goes straight to its GET.
Call_get_without_set_replica ==
    /\ Call("get", "get_return")
    /\ path' \in Paths
    /\ UNCHANGED <<index, data, id_index, elser>>

Call_get ==
    /\ Call("get", "get_set_replica")
    /\ path' \in Paths
    /\ UNCHANGED <<index, data, id_index, elser>>

get_set_replica == set_replica("get_set_replica", "_all", "get_return")

get_return == Stdout("get_return", GetRequest(path), Return, "done")

\* ------------------------------------------------------------- delete --
Call_delete ==
    /\ Call("delete", "delete_return")
    /\ index' \in IndexNames
    /\ UNCHANGED <<path, data, id_index, elser>>

delete_return == Stdout("delete_return", DeleteRequest(index), Return, "done")

\* --------------------------------------------------------- index_data --
Call_index_data ==
    /\ Call("index_data", "index_data_format")
    /\ data' \in DataFiles
    /\ \E i \in IndexNames : index' = i /\ id_index' = i
    /\ UNCHANGED <<path, elser>>

\* operations = self.format_data_for_bulk_indexing(json.loads(...), index)
index_data_format ==
    /\ status = "running"
    /\ pc = "index_data_format"
    /\ IF ~data.json
       THEN /\ Raise(JSONDecodeError)
            /\ UNCHANGED operations
       ELSE /\ operations' = format_data_for_bulk_indexing(data.docs, id_index)
            /\ pc' = "index_data_post"
            /\ UNCHANGED <<status, cluster, error>>
    /\ UNCHANGED <<mode, op, caller, inputs, id_index, url_i, r, result, inflight,
                   log, elser>>

index_data_post ==
    Stdout("index_data_post", BulkRequest(operations),
           Assign("resp"), "index_data_set_replica")

\* Variant: index_data leaves the replicas to its caller.
index_data_skip_set_replica ==
    /\ status = "running"
    /\ pc = "index_data_set_replica"
    /\ pc' = "index_data_return"
    /\ UNCHANGED <<mode, status, op, caller, inputs, id_index, operations, url_i,
                   r, result, inflight, log, cluster, elser, error>>

index_data_set_replica ==
    set_replica("index_data_set_replica", id_index, "index_data_return")

\* return resp, to dagger or into r3 of semantic_search_index_data
index_data_return ==
    /\ status = "running"
    /\ pc = "index_data_return"
    /\ IF caller = "dagger"
       THEN /\ result' = r["resp"]
            /\ status' = "returned"
            /\ pc' = "done"
            /\ UNCHANGED <<r, caller>>
       ELSE /\ r' = [r EXCEPT !["r3"] = r["resp"]]
            /\ pc' = "ssid_set_replica_tmp"
            /\ caller' = "dagger"
            /\ UNCHANGED <<result, status>>
    /\ UNCHANGED <<mode, op, inputs, id_index, operations, url_i, inflight, log,
                   cluster, elser, error>>

\* ------------------------------------------------------------- search --
Call_search ==
    /\ Call("search", "search_return")
    /\ index' \in IndexNames
    /\ UNCHANGED <<path, data, id_index, elser>>

search_return == Stdout("search_return", SearchRequest(index), Return, "done")

Call_semantic_search ==
    /\ Call("semantic_search", "semantic_search_return")
    /\ index' \in IndexNames
    /\ UNCHANGED <<path, data, id_index, elser>>

semantic_search_return ==
    Stdout("semantic_search_return", SemanticSearchRequest(index), Return, "done")

\* ----------------------------------------- semantic_search_index_data --
index_tmp == "index_tmp"

Call_semantic_search_index_data ==
    /\ Call("semantic_search_index_data", "ssid_r1")
    /\ data' \in DataFiles
    /\ index' \in IndexNames
    /\ UNCHANGED <<path, id_index, elser>>

\* Variant: the mapping and the pipeline requests are sent together.
ssid_r1_gather ==
    /\ status = "running"
    /\ pc = "ssid_r1"
    /\ inflight = {}
    /\ inflight' = {MappingRequest(index), PipelineRequest}
    /\ log' = log \o <<MappingRequest(index), PipelineRequest>>
    /\ pc' = "ssid_set_replica"
    /\ UNCHANGED <<mode, status, op, caller, inputs, id_index, operations, url_i,
                   r, result, cluster, elser, error>>

ssid_r1 ==
    Stdout("ssid_r1", MappingRequest(index),
           Assign("r1"), "ssid_set_replica")

ssid_set_replica == set_replica("ssid_set_replica", index, "ssid_r2")

ssid_r2 ==
    Stdout("ssid_r2", PipelineRequest, Assign("r2"), "ssid_r3")

\* r3 = await self.index_data(data, index_tmp): the call
ssid_r3 ==
    /\ status = "running"
    /\ pc = "ssid_r3"
    /\ id_index' = index_tmp
    /\ caller' = "semantic_search_index_data"
    /\ pc' = "index_data_format"
    /\ UNCHANGED <<mode, status, op, inputs, operations, url_i, r, result, inflight,
                   log, cluster, elser, error>>

ssid_set_replica_tmp == set_replica("ssid_set_replica_tmp", index_tmp, "ssid_r4")

ssid_r4 ==
    Stdout("ssid_r4", ReindexRequest(index, index_tmp),
           Assign("r4"), "ssid_return")

\* Variant: the bulk answer ahead of the pipeline answer.
ssid_result_swapped(regs) == regs["r1"] \o regs["r3"] \o regs["r2"] \o regs["r4"]

ssid_result(regs) == regs["r1"] \o regs["r2"] \o regs["r3"] \o regs["r4"]

ssid_return ==
    /\ status = "running"
    /\ pc = "ssid_return"
    /\ result' = ssid_result(r)
    /\ status' = "returned"
    /\ pc' = "done"
    /\ UNCHANGED <<mode, op, caller, inputs, id_index, operations, url_i, r, inflight,
                   log, cluster, elser, error>>

\* ------------------------------------------------------- install_elser --
Call_install_elser ==
    /\ Call("install_elser", "install_elser_init")
    /\ elser' = "NotInstalled"
    /\ UNCHANGED <<inputs, id_index>>

\* out = ""
install_elser_init ==
    /\ status = "running"
    /\ pc = "install_elser_init"
    /\ r' = [r EXCEPT !["out"] = <<>>]
    /\ url_i' = 0
    /\ elser' = "Downloading"
    /\ pc' = "install_elser_for"
    /\ UNCHANGED <<mode, status, op, caller, inputs, id_index, operations, result,
                   inflight, log, cluster, error>>

\* Variant: the loop stops one file short.
install_elser_for_short ==
    /\ status = "running"
    /\ pc = "install_elser_for"
    /\ IF url_i < Len(models_files_urls) - 1
       THEN url_i' = url_i + 1 /\ pc' = "install_elser_fetch"
       ELSE url_i' = url_i /\ pc' = "install_elser_return"
    /\ UNCHANGED <<mode, status, op, caller, inputs, id_index, operations, r, result,
                   inflight, log, cluster, elser, error>>

\* for model_file_url in models_files_urls: the next url, or the loop's end
install_elser_for ==
    /\ status = "running"
    /\ pc = "install_elser_for"
    /\ IF url_i < Len(models_files_urls)
       THEN url_i' = url_i + 1 /\ pc' = "install_elser_fetch"
       ELSE url_i' = url_i /\ pc' = "install_elser_return"
    /\ UNCHANGED <<mode, status, op, caller, inputs, id_index, operations, r, result,
                   inflight, log, cluster, elser, error>>

\* out += await self.curl...with_exec([... model_file_url ...])...stdout()
install_elser_fetch ==
    Stdout("install_elser_fetch", FetchRequest(models_files_urls[url_i]),
           AddTo("out"), "install_elser_for")

\* return out, to dagger or to deploy_elser (which drops it)
install_elser_return ==
    /\ status = "running"
    /\ pc = "install_elser_return"
    /\ elser' = "Installed"
    /\ IF caller = "dagger"
       THEN /\ result' = r["out"]
            /\ status' = "returned"
            /\ pc' = "done"
            /\ UNCHANGED caller
       ELSE /\ pc' = "deploy_elser_settings"
            /\ caller' = "dagger"
            /\ UNCHANGED <<result, status>>
    /\ UNCHANGED <<mode, op, inputs, id_index, operations, url_i, r, inflight, log,
                   cluster, error>>

\* -------------------------------------------------------- deploy_elser --
Call_deploy_elser ==
    /\ Call("deploy_elser", "deploy_elser_install")
    /\ elser' = "NotInstalled"
    /\ UNCHANGED <<inputs, id_index>>

\* await self.install_elser(): the call
deploy_elser_install ==
    /\ status = "running"
    /\ pc = "deploy_elser_install"
    /\ caller' = "deploy_elser"
    /\ pc' = "install_elser_init"
    /\ UNCHANGED <<mode, status, op, inputs, id_index, operations, url_i, r, result,
                   inflight, log, cluster, elser, error>>

deploy_elser_settings ==
    Stdout("deploy_elser_settings", ClusterSettingsRequest, Discard, "deploy_elser_create")

deploy_elser_create ==
    Stdout("deploy_elser_create", CreateModelRequest,
           Assign("model_creation_output"), "deploy_elser_start")

deploy_elser_start ==
    Stdout("deploy_elser_start", StartDeploymentRequest,
           Assign("model_deployment_output"), "deploy_elser_return")

deploy_elser_return ==
    /\ status = "running"
    /\ pc = "deploy_elser_return"
    /\ result' = r["model_creation_output"] \o r["model_deployment_output"]
    /\ status' = "returned"
    /\ pc' = "done"
    /\ UNCHANGED <<mode, op, caller, inputs, id_index, operations, url_i, r, inflight,
                   log, cluster, elser, error>>

\* ------------------------------------------------------- the next call --
\* The call is over; dagger builds the object anew for the next call.  The
\* es-data cache volume keeps the cluster's content.
NextCall ==
    /\ status \in {"returned", "raised"}
    /\ status' = "idle"
    /\ op' = "none"
    /\ pc' = "done"
    /\ caller' = "dagger"
    /\ path' = ""
    /\ index' = "my-index"
    /\ data' = JsonFile(<<>>)
    /\ id_index' = "my-index"
    /\ operations' = <<>>
    /\ url_i' = 0
    /\ r' = [s \in Slots |-> <<>>]
    /\ result' = <<>>
    /\ inflight' = {}
    /\ log' = <<>>
    /\ elser' = "NotInstalled"
    /\ error' = NoError
    /\ UNCHANGED <<mode, cluster>>

Next ==
    \/ Call_get \/ get_set_replica \/ get_return
    \/ Call_delete \/ delete_return
    \/ Call_index_data \/ index_data_format \/ index_data_post
    \/ index_data_set_replica \/ index_data_return
    \/ Call_search \/ search_return
    \/ Call_semantic_search \/ semantic_search_return
    \/ Call_semantic_search_index_data \/ ssid_r1 \/ ssid_set_replica \/ ssid_r2
    \/ ssid_r3 \/ ssid_set_replica_tmp \/ ssid_r4 \/ ssid_return
    \/ Call_install_elser \/ install_elser_init \/ install_elser_for
    \/ install_elser_fetch
    \/ install_elser_return
    \/ Call_deploy_elser \/ deploy_elser_install \/ deploy_elser_settings
    \/ deploy_elser_create \/ deploy_elser_start \/ deploy_elser_return
    \/ NextCall

Spec == Init /\ [][Next]_vars

\* =========================================================== claims ====
Finished == status \in {"returned", "raised"}

IsPrefix(a, b) == Len(a) <= Len(b) /\ a = SubSeq(b, 1, Len(a))

IsSuppression(q) ==
    q.method = "PUT" /\ q.endpoint = "_settings" /\ q.body = no_replica_query

SuppressionCalls(l) == SelectSeq(l, IsSuppression)
PrimaryCalls(l) == SelectSeq(l, LAMBDA q : ~IsSuppression(q))

Answers(body, req) == Len(body) = 1 /\ body[1].of = req

\* ---------------------------------------------------------------- C1 ---
\* C1 as claimed: an index_data call that is over has issued exactly one
\* suppression call, to its index, if mode is dev, and none otherwise.
C1_AsClaimed ==
    (op = "index_data" /\ Finished) =>
        SuppressionCalls(log) = IF mode = "dev" THEN <<SettingsRequest(index)>> ELSE <<>>

\* C1 as amended: an index_data call that is over has issued exactly one
\* suppression call, to its index, if mode is dev and the bulk request came
\* back with a body; none if mode is not dev, if the data file is not JSON,
\* or if the bulk request failed in transport.
C1_Suppression_iff_dev_and_bulk_answered ==
    (op = "index_data" /\ Finished) =>
        SuppressionCalls(log) =
            IF mode = "dev" /\ r["resp"] # <<>> THEN <<SettingsRequest(index)>> ELSE <<>>

C1_Witness ==
    /\ op = "index_data" /\ status = "returned" /\ mode = "dev"
    /\ SuppressionCalls(log) = <<SettingsRequest(index)>>
    /\ Len(log) = 2

\* ---------------------------------------------------------------- C3 ---
\* C3 as claimed: in get and index_data the failure of the suppression
\* call is never the error of the call, and an index_data whose bulk request
\* came back with a body returns that body.
C3_AsClaimed ==
    /\ (op \in {"get", "index_data"} /\ status = "raised")
            => ~(error.type = "ExecError" /\ IsSuppression(error.cmd))
    /\ (op = "index_data" /\ Finished /\ r["resp"] # <<>>)
            => (status = "returned" /\ result = r["resp"])

\* ---------------------------------------------------------------- C4 ---
RECURSIVE SplitNL(_, _)
SplitNL(text, line) ==
    IF text = <<>> THEN <<line>>
    ELSE IF Head(text) = NL THEN <<line>> \o SplitNL(Tail(text), <<>>)
    ELSE SplitNL(Tail(text), Append(line, Head(text)))

ExpectedLines(docs, i) ==
    [k \in 1..(2 * Len(docs)) |->
        IF k % 2 = 1 THEN DumpsIndexAction(i) ELSE DumpsDocument(docs[k \div 2])]

BulkTextComputed == pc \in {"index_data_post", "index_data_set_replica", "index_data_return"}

\* C4: the bulk text of index_data ends with a newline, and what is before
\* that newline is 2*len(D) lines (nothing at all when D is empty), the odd
\* ones the index action naming the index, the even ones the serialization
\* of the documents in input order.
C4_BulkFormat ==
    BulkTextComputed =>
        /\ Len(operations) >= 1
        /\ operations[Len(operations)] = NL
        /\ LET text == SubSeq(operations, 1, Len(operations) - 1)
               lines == IF text = <<>> THEN <<>> ELSE SplitNL(text, <<>>)
           IN  /\ Len(lines) = 2 * Len(data.docs)
               /\ lines = ExpectedLines(data.docs, id_index)

C4_Witness ==
    /\ op = "index_data" /\ pc = "index_data_post"
    /\ Len(data.docs) >= 2
    /\ data.docs[1] = DocMultiline /\ data.docs[2] = DocEmpty
    /\ Len(SplitNL(operations, <<>>)) = 5

\* ---------------------------------------------------------------- C5 ---
ssid_primaries ==
    << MappingRequest(index), PipelineRequest,
       BulkRequest(format_data_for_bulk_indexing(data.docs, index_tmp)),
       ReindexRequest(index, index_tmp) >>

\* C5: semantic_search_index_data issues its primary requests in the order
\* mapping, pipeline, bulk load of index_tmp, reindex, and what it returns is
\* the four bodies answering them, in that order, and nothing else.
C5_FourBodiesInOrder ==
    op = "semantic_search_index_data" =>
        /\ IsPrefix(PrimaryCalls(log), ssid_primaries)
        /\ status = "returned" =>
              /\ Len(result) = 4
              /\ \A k \in 1..4 : result[k].of = ssid_primaries[k]
              /\ PrimaryCalls(log) = ssid_primaries

C5_Witness ==
    /\ op = "semantic_search_index_data" /\ status = "returned" /\ mode = "dev"
    /\ Len(result) = 4
    /\ Len(data.docs) >= 1

\* ---------------------------------------------------------------- C6 ---
\* C6: in dev mode get issues the _all/_settings PUT and then the GET, and
\* returns the one body that answers the GET; in another mode it issues the
\* GET alone.
C6_GetOrder ==
    op = "get" =>
        LET expected == IF mode = "dev"
                        THEN <<SettingsRequest("_all"), GetRequest(path)>>
                        ELSE <<GetRequest(path)>>
        IN  /\ IsPrefix(log, expected)
            /\ status = "returned" => (log = expected /\ Answers(result, GetRequest(path)))

C6_Witness ==
    /\ op = "get" /\ status = "returned" /\ mode = "dev"
    /\ log = <<SettingsRequest("_all"), GetRequest(path)>>

\* ---------------------------------------------------------------- C7 ---
ElserIndex(st) == CHOOSE k \in 1..Len(ElserStates) : ElserStates[k] = st

InDeployment == op = "deploy_elser" /\ status = "running"

\* exactly one awaited call comes back with a body in this step
OneCallAnswered ==
    /\ Cardinality(inflight) = 1
    /\ inflight' = {}
    /\ status' # "raised"

Fetches == [k \in 1..Len(models_files_urls) |-> FetchRequest(models_files_urls[k])]

deploy_elser_calls ==
    Fetches \o <<ClusterSettingsRequest, CreateModelRequest, StartDeploymentRequest>>

NoRepeat(l) == \A a, b \in 1..Len(l) : l[a] = l[b] => a = b

\* what holds of every step whatever a transition is made of: the order of
\* the states, no call issued twice, a failure moves nothing and ends it
C7_Sequencing ==
    /\ (InDeployment /\ elser' # elser) => ElserIndex(elser') = ElserIndex(elser) + 1
    /\ InDeployment => (IsPrefix(log', deploy_elser_calls) /\ NoRepeat(log'))
    /\ (InDeployment /\ status' = "raised") => (elser' = elser /\ log' = log /\ pc' = "done")
    /\ (op = "deploy_elser" /\ status = "raised") => (status' = "idle" /\ inflight = {})
    /\ (op = "deploy_elser" /\ status' = "returned") =>
            (elser' = "DeploymentStarted" /\ log' = deploy_elser_calls)

\* the calls of the running function that have come back
CallsAnswered == Len(log) - Cardinality(inflight)

\* C7 as claimed: the states follow in order, each transition is one call
\* (as many calls have come back as transitions were made), nothing is
\* issued twice, and a failure leaves the state where it was with nothing
\* issued after it.
C7_AsClaimed ==
    [][ /\ C7_Sequencing
        /\ (InDeployment /\ status' # "raised") =>
                CallsAnswered' = ElserIndex(elser') - 1 ]_vars

\* C7 as amended: the states follow in order; the sequence is Downloading
\* from the start of install_elser, before any call, and Installed once the
\* three file fetches have come back, one after the other; each of the
\* three later changes of state is one HTTP call that came back; nothing is
\* issued twice, and a failure leaves the state where it was with nothing
\* issued after it.
C7_DeploymentOrder ==
    [][ /\ C7_Sequencing
        /\ (InDeployment /\ elser' # elser) =>
              CASE elser' = "Downloading" -> log' = <<>> /\ inflight' = {}
                [] elser' = "Installed" -> log' = Fetches /\ inflight' = {}
                [] OTHER -> /\ OneCallAnswered
                            /\ Len(log') = ElserIndex(elser') ]_vars

C7_Witness ==
    /\ op = "deploy_elser" /\ status = "returned"
    /\ elser = "DeploymentStarted"
    /\ Len(log) = 6

\* ---------------------------------------------------------------- C8 ---
\* C8: a request is issued only when no request of the call is in flight,
\* so that at most one request is in flight and at most one container with
\* the service bound is running.
C8_Sequential ==
    [][ /\ Len(log') > Len(log) => inflight = {}
        /\ Cardinality(inflight') <= 1
        /\ Cardinality({q \in inflight' : q.svc}) <= 1 ]_vars

C8_Witness ==
    /\ op = "semantic_search_index_data"
    /\ Len(log) >= 2
    /\ inflight = {PipelineRequest}

\* ---------------------------------------------------------------- C9 ---
Got2xx(body) == Len(body) = 1 /\ body[1].status = "2xx"

ssid_calls ==
    IF mode = "dev"
    THEN << ssid_primaries[1], SettingsRequest(index), ssid_primaries[2],
            ssid_primaries[3], SettingsRequest(index_tmp), SettingsRequest(index_tmp),
            ssid_primaries[4] >>
    ELSE ssid_primaries

\* C9: when semantic_search_index_data ends with an error nothing is
\* returned and the failed request is the last one issued (a data file that
\* is not JSON fails before the bulk request); no request of the call is a
\* DELETE, and what the answered steps created (the index, the pipeline, the
\* loaded index_tmp) is still in the cluster.
C9_AbortNoRollback ==
    op = "semantic_search_index_data" =>
        /\ status = "raised" =>
              /\ result = <<>>
              /\ inflight = {}
              /\ pc = "done"
              /\ IsPrefix(log, ssid_calls)
              /\ Len(log) < Len(ssid_calls) \/ error.type = "ExecError"
              /\ error.type = "ExecError" => error.cmd = log[Len(log)]
              /\ error.type = "JSONDecodeError" => Len(PrimaryCalls(log)) = 2
        /\ \A k \in 1..Len(log) : log[k].method # "DELETE"
        /\ Got2xx(r["r1"]) => index \in cluster
        /\ Got2xx(r["r2"]) => "elser-pipeline" \in cluster
        /\ Got2xx(r["resp"]) => index_tmp \in cluster

C9_Witness ==
    /\ op = "semantic_search_index_data" /\ status = "raised"
    /\ error = ExecError(ReindexRequest(index, index_tmp))
    /\ Got2xx(r["r1"]) /\ Got2xx(r["r2"]) /\ Got2xx(r["r3"])
    /\ {index, "elser-pipeline", index_tmp} \subseteq cluster

\* --------------------------------------------------------------- C10 ---
\* C10: a semantic_search_index_data that returns has issued, in dev mode,
\* the seven requests mapping, settings of the index, pipeline, bulk,
\* settings of index_tmp, settings of index_tmp, reindex, and in another
\* mode the four primary requests.
C10_SevenRequests ==
    (op = "semantic_search_index_data" /\ status = "returned") =>
        /\ log = ssid_calls
        /\ Len(log) = IF mode = "dev" THEN 7 ELSE 4
        /\ mode = "dev" =>
              /\ Len(SelectSeq(log, LAMBDA q : q = SettingsRequest(index_tmp))) = 2
              /\ Len(SelectSeq(log, LAMBDA q : q = SettingsRequest(index))) = 1

C10_Witness ==
    /\ op = "semantic_search_index_data" /\ status = "returned" /\ mode = "dev"
    /\ Len(log) = 7
    /\ log[5] = SettingsRequest(index_tmp) /\ log[6] = SettingsRequest(index_tmp)

====
